---------------------------- MODULE Spec2Model ----------------------------
(***************************************************************************)
(* Campaign approval workflow of the marketing-automation demo.            *)
(*                                                                         *)
(* Two application variants share the workflow code almost verbatim:       *)
(*   "template" : src/streamlit-app-template/app.py                        *)
(*   "app"      : src/streamlit-app/app.py                                 *)
(* A behaviour of Spec is one browser session of one variant.  Every       *)
(* action is one user interaction: the script run that handles it and,     *)
(* when that run ends in st.rerun(), the run(s) that follow it.            *)
(*                                                                         *)
(* SpecTimeout models _run_with_timeout / get_compliance_from_uc_timeout   *)
(* (utils.py) at the granularity of the two threads' steps.                *)
(***************************************************************************)
EXTENDS Integers, Sequences, FiniteSets, TLC

VARIABLES
    variant,                  \* which app.py this session runs
    workflow_started,         \* st.session_state["workflow_started"]
    selected_campaign_key,    \* intro selectbox value
    brief_selected_campaign,  \* Briefing-tab selectbox value ("app" only), "unset" before its first render
    prod_selected_campaign_prev, \* st.session_state["prod_selected_campaign_prev"], "None" when absent
    campaign_id,              \* st.session_state.campaign_id, "None" initially
    campaign_meta,            \* st.session_state["campaign_meta"]["brief_id"]
    campaign_brief,           \* st.session_state.campaign_brief
    workflow_state,           \* st.session_state.workflow_state
    approval_feedback,        \* st.session_state.approval_feedback
    prod_prompt_generated,    \* st.session_state["prod_prompt_generated"]
    prod_seed_found,          \* st.session_state["prod_seed_found"]
    prod_generated,           \* st.session_state["prod_generated"]
    compliance,               \* result of the compliance read of the last script run
    event,                    \* the interaction handled last, with the compliance read of the run that handled it
    success,                  \* value returned by render_approval_section for that interaction
    user_choice,              \* campaign the user picked last in a selectbox
    \* ---- bounded-time read wrapper (SpecTimeout) ----
    t_pc,                     \* position of the caller inside _run_with_timeout
    w_pc,                     \* position of each call's worker thread
    w_outcome,                \* what fn does in each call's worker
    result_holder,            \* result_holder of each call
    error_holder,             \* error_holder of each call
    calls,                    \* number of calls started so far
    read_done_at_join,       \* had fn returned when t.join(timeout) returned
    alive_at_check,           \* value of t.is_alive()
    join_timed_out,           \* did t.join(timeout) return because the timeout elapsed
    wrapper_ret,              \* what _run_with_timeout gave its caller
    compliance_ret,           \* what get_compliance_from_uc_timeout gave its caller
    cache,                    \* st.cache_data entry of get_compliance_from_uc for the brief read
    \* ---- warehouse reads and DataSource operations (SpecRead) ----
    r_provider,               \* class of the provider object the operation is called on
    r_op,                     \* operation in progress
    r_pc,                     \* position inside the operation
    r_conn,                   \* the connection the operation acquired: none, open, closed
    r_cursor,                 \* its cursor: none, open, closed
    r_rows,                   \* rows fetched so far
    r_fail,                   \* where the transport failed in this call, if it did
    r_ret,                    \* what the operation handed its caller
    r_execs,                  \* cursor.execute calls issued by the operation so far
    \* ---- pure helpers (SpecFn) ----
    f_op,                     \* helper applied last
    f_in,                     \* its argument
    f_out                     \* its result

wfvars == <<variant, workflow_started, selected_campaign_key, brief_selected_campaign,
            prod_selected_campaign_prev, campaign_id, campaign_meta, campaign_brief,
            workflow_state, approval_feedback, prod_prompt_generated, prod_seed_found,
            prod_generated, compliance, event, success, user_choice>>

tvars == <<t_pc, w_pc, w_outcome, result_holder, error_holder, calls,
           read_done_at_join, alive_at_check, join_timed_out, wrapper_ret, compliance_ret,
           cache>>

rvars == <<r_provider, r_op, r_pc, r_conn, r_cursor, r_rows, r_fail, r_ret, r_execs>>

fvars == <<f_op, f_in, f_out>>

vars == <<wfvars, tvars, rvars, fvars>>

-----------------------------------------------------------------------------
(* Python values: None, strings and integers, with Python's truthiness.    *)

NoneV == [tag |-> "none"]

StrV(s) == [tag |-> "str", s |-> s]

IntV(n) == [tag |-> "int", n |-> n]

Truthy(v) ==
    CASE v.tag = "none" -> FALSE
      [] v.tag = "str"  -> v.s # ""
      [] v.tag = "int"  -> v.n # 0

\* dict.get(k): None when the key is missing
Get(d, k) == IF k \in DOMAIN d THEN d[k] ELSE NoneV

\* Python's `a or b`
Or(a, b) == IF Truthy(a) THEN a ELSE b

-----------------------------------------------------------------------------
(* Campaign catalogue and brief defaults.                                  *)

Variants == {"template", "app"}

\* keys of PRODUCTION_CAMPAIGNS, in dict order
CampaignKeys == <<"brief_001", "brief_002", "brief_003">>

Campaigns == {CampaignKeys[i] : i \in 1..Len(CampaignKeys)}

\* PRODUCTION_CAMPAIGNS[k]["type"]
CampaignType(k) ==
    CASE k = "brief_001" -> "Acquisition"
      [] k = "brief_002" -> "Retention"
      [] k = "brief_003" -> "Engagement"

\* index=0 of the selectboxes
DefaultCampaign == CampaignKeys[1]

DEFAULT_BRIEF ==
    [type     |-> StrV("Awareness"),
     audience |-> StrV("Women 18-35, health-conscious, digital-native"),
     budget   |-> IntV(250000),
     timeline |-> StrV("6 weeks"),
     brief    |-> StrV("Increase awareness, drive feature adoption, and build community.")]

\* utils.normalize_brief (the definition in force: the later one in the module)
normalize_brief(brief, defaults) ==
    [type     |-> Or(Get(brief, "type"), Get(defaults, "type")),
     audience |-> Or(Get(brief, "audience"), Get(defaults, "audience")),
     budget   |-> IF Get(brief, "budget") \notin {NoneV, StrV(""), IntV(0)}
                  THEN Get(brief, "budget") ELSE Get(defaults, "budget"),
     timeline |-> Or(Get(brief, "timeline"), Get(defaults, "timeline")),
     brief    |-> Or(Get(brief, "brief"), Get(defaults, "brief"))]

\* the brief derived at the intro from the chosen campaign and the defaults
IntroBrief(k) ==
    normalize_brief([type     |-> StrV(CampaignType(k)),
                     audience |-> DEFAULT_BRIEF.audience,
                     budget   |-> DEFAULT_BRIEF.budget,
                     timeline |-> DEFAULT_BRIEF.timeline,
                     brief    |-> DEFAULT_BRIEF.brief],
                    DEFAULT_BRIEF)

InitialWorkflowState ==
    [step               |-> 0,
     agent              |-> "idle",
     briefing_approved  |-> FALSE,
     production_approved |-> FALSE,
     compliance_approved |-> FALSE,
     handoff_approved   |-> FALSE,
     analysis_complete  |-> FALSE,
     messages           |-> << >>]

EmptyFeedback == [s \in {} |-> ""]


\* approval_feedback[agent_name] = feedback
Put(d, k, v) == [x \in (DOMAIN d) \cup {k} |-> IF x = k THEN v ELSE d[x]]

-----------------------------------------------------------------------------
(* The session state as one value, so that the tabs of a script run and    *)
(* the runs of an interaction compose.                                     *)

Session ==
    [workflow_started            |-> workflow_started,
     selected_campaign_key       |-> selected_campaign_key,
     brief_selected_campaign     |-> brief_selected_campaign,
     prod_selected_campaign_prev |-> prod_selected_campaign_prev,
     campaign_id                 |-> campaign_id,
     campaign_meta               |-> campaign_meta,
     campaign_brief              |-> campaign_brief,
     workflow_state              |-> workflow_state,
     approval_feedback           |-> approval_feedback,
     prod_prompt_generated       |-> prod_prompt_generated,
     prod_seed_found             |-> prod_seed_found,
     prod_generated              |-> prod_generated]

\* the stages render_approval_section is called for
Stages == {"Compliance", "Handoff"}

\* a plausible slip: the key of the stage before the one approved
ApprovalKey_Previous(agent_name) ==
    CASE agent_name = "Compliance" -> "production_approved"
      [] agent_name = "Handoff"    -> "compliance_approved"

\* f"{agent_name.lower()}_approved"
ApprovalKey(agent_name) ==
    CASE agent_name = "Compliance" -> "compliance_approved"
      [] agent_name = "Handoff"    -> "handoff_approved"

\* a plausible slip: each call site passes the step after its own
StepNum_OffByOne(agent_name) ==
    CASE agent_name = "Compliance" -> 5
      [] agent_name = "Handoff"    -> 6

\* the step_num each call site passes
StepNum(agent_name) ==
    CASE agent_name = "Compliance" -> 4
      [] agent_name = "Handoff"    -> 5

\* what the user typed into the feedback text area
Feedbacks == {"", "ship it"}

\* results of get_compliance_from_uc_timeout as the Compliance tab sees them:
\*   "absent"  : {} (falsy)
\*   "record"  : a compliance record (status "success")
\*   "timeout" : {"status": "error", "message": ...}
\* the template's get_compliance_from_uc is a placeholder returning {}
ReadOutcomes ==
    IF variant = "app" THEN {"absent", "record", "timeout"} ELSE {"absent", "timeout"}

\* `if not compliance`
ComplianceFalsy(read) == read = "absent"

\* the branch of the Compliance tab a read's result is rendered on:
\* `if not compliance: st.warning(...)  else: <the loaded record>`
CompliancePath(read) == IF ComplianceFalsy(read) THEN "no_record" ELSE "loaded"

NoEvent == [kind |-> "none", stage |-> "-", feedback |-> "-", campaign |-> "-"]

\* an execution of the script: the session so far, whether st.rerun() was
\* called, what render_approval_section returned to the tab that handled
\* the click, whether the click reached its widget, the compliance read
Exec(s) == [s |-> s, rerun |-> FALSE, ret |-> FALSE, handled |-> FALSE, read |-> "none"]

-----------------------------------------------------------------------------
(* render_approval_section                                                 *)

\* a plausible slip: the approval is recorded without its feedback
OnApprove_DropsFeedback(x, agent_name, step_num, feedback) ==
    [x EXCEPT !.s.workflow_state =
                  [@ EXCEPT ![ApprovalKey(agent_name)] = TRUE, !.step = step_num],
              !.ret = TRUE,
              !.handled = TRUE]

\* a plausible slip: the approval record is replaced by the new entry
OnApprove_ReplacesRecord(x, agent_name, step_num, feedback) ==
    [x EXCEPT !.s.workflow_state =
                  [@ EXCEPT ![ApprovalKey(agent_name)] = TRUE, !.step = step_num],
              !.s.approval_feedback = Put(EmptyFeedback, agent_name, feedback),
              !.ret = TRUE,
              !.handled = TRUE]

\* `if approve_clicked:`
OnApprove(x, agent_name, step_num, feedback) ==
    [x EXCEPT !.s.workflow_state =
                  [@ EXCEPT ![ApprovalKey(agent_name)] = TRUE, !.step = step_num],
              !.s.approval_feedback = Put(@, agent_name, feedback),
              !.ret = TRUE,
              !.handled = TRUE]

\* a plausible slip: a rejection withdraws the approval and steps back
OnReject_Regresses(x, agent_name, step_num) ==
    [x EXCEPT !.s.workflow_state =
                  [@ EXCEPT ![ApprovalKey(agent_name)] = FALSE, !.step = step_num - 1],
              !.ret = FALSE,
              !.handled = TRUE]

\* `if reject_clicked:`
OnReject(x, agent_name, step_num) ==
    [x EXCEPT !.ret = FALSE, !.handled = TRUE]

render_approval_section(x, agent_name, step_num, ev) ==
    LET approve_clicked == ev.kind = "approve" /\ ev.stage = agent_name
        reject_clicked  == ev.kind = "reject" /\ ev.stage = agent_name
    IN  IF approve_clicked THEN OnApprove(x, agent_name, step_num, ev.feedback)
        ELSE IF reject_clicked THEN OnReject(x, agent_name, step_num)
        ELSE [x EXCEPT !.ret = FALSE]

-----------------------------------------------------------------------------
(* main(): the intro section                                               *)

IntroSection(x, ev) ==
    LET chosen == IF ev.kind = "intro_select" THEN ev.campaign
                  ELSE x.s.selected_campaign_key
        shown  == [x EXCEPT !.s.selected_campaign_key = chosen,
                            !.s.campaign_meta = [brief_id |-> chosen],
                            !.s.campaign_brief = IntroBrief(chosen),
                            !.handled = (ev.kind = "intro_select")]
    IN  IF ev.kind = "start"
        THEN [shown EXCEPT !.s.campaign_id = chosen,
                           !.s.prod_generated = FALSE,
                           !.s.workflow_state = InitialWorkflowState,
                           !.s.approval_feedback = EmptyFeedback,
                           !.s.workflow_started = TRUE,
                           !.handled = TRUE,
                           !.rerun = TRUE]
        ELSE shown

-----------------------------------------------------------------------------
(* main(): the tabs                                                        *)

\* a plausible slip: the switch re-points the workflow at the new campaign
\* and keeps the approvals of the old one
SwitchReset_KeepsApprovals(y, sel_key_top) ==
    [y EXCEPT !.s.prod_generated = FALSE,
              !.s.prod_prompt_generated = FALSE,
              !.s.prod_seed_found = FALSE,
              !.s.prod_selected_campaign_prev = sel_key_top,
              !.s.campaign_meta = [brief_id |-> sel_key_top],
              !.s.campaign_id = sel_key_top,
              !.s.campaign_brief = [@ EXCEPT !.type = StrV(CampaignType(sel_key_top))],
              !.rerun = TRUE]

\* `if prev_top is None or prev_top != sel_key_top:` the campaign switch
SwitchReset(y, sel_key_top) ==
    [y EXCEPT !.s.prod_generated = FALSE,
              !.s.prod_prompt_generated = FALSE,
              !.s.prod_seed_found = FALSE,
              !.s.prod_selected_campaign_prev = sel_key_top,
              !.s.campaign_meta = [brief_id |-> sel_key_top],
              !.s.campaign_id = sel_key_top,
              !.s.campaign_brief = [@ EXCEPT !.type = StrV(CampaignType(sel_key_top))],
              !.s.workflow_state = InitialWorkflowState,
              !.s.approval_feedback = EmptyFeedback,
              !.rerun = TRUE]

\* Briefing tab; only src/streamlit-app/app.py has the campaign picker
BriefingTab(x, ev) ==
    IF variant # "app" THEN x
    ELSE
    LET sel_key_top == IF ev.kind = "picker" THEN ev.campaign
                       ELSE IF x.s.brief_selected_campaign = "unset" THEN DefaultCampaign
                       ELSE x.s.brief_selected_campaign
        prev_top    == x.s.prod_selected_campaign_prev
        y           == [x EXCEPT !.s.brief_selected_campaign = sel_key_top,
                                 !.handled = (ev.kind = "picker")]
    IN  IF prev_top = "None" \/ prev_top # sel_key_top
        THEN SwitchReset(y, sel_key_top)
        ELSE y

\* workflow_state["step"] = 3 when the creative has been generated
GenerationStep == 3

\* a plausible slip: a new creative withdraws the approvals given so far
OnGenerate_ClearsApprovals(ws) ==
    [ws EXCEPT !.step = GenerationStep,
               !.compliance_approved = FALSE,
               !.handoff_approved = FALSE]

\* a plausible slip: generation restarts the step counter
OnGenerate_RestartsStep(ws) == [ws EXCEPT !.step = 0]

\* what generation completion does to workflow_state
OnGenerate(ws) == [ws EXCEPT !.step = GenerationStep]

\* Production tab: the three buttons, each handled only where it is rendered
ProductionTab(x, ev) ==
    LET a == IF ~x.s.prod_prompt_generated /\ ev.kind = "gen_prompt"
             THEN [x EXCEPT !.s.prod_prompt_generated = TRUE, !.handled = TRUE]
             ELSE x
        b == IF a.s.prod_prompt_generated /\ ~a.s.prod_seed_found /\ ev.kind = "find_seed"
             THEN [a EXCEPT !.s.prod_seed_found = TRUE, !.handled = TRUE]
             ELSE a
    IN  IF /\ ~b.s.prod_generated
           /\ b.s.prod_prompt_generated /\ b.s.prod_seed_found
           /\ ev.kind = "generate"
        THEN [b EXCEPT !.s.prod_generated = TRUE,
                       !.s.workflow_state = OnGenerate(@),
                       !.handled = TRUE,
                       !.rerun = TRUE]
        ELSE b

\* whether the Compliance tab renders its approval section
ComplianceApprovalShown(read) ==
    IF variant = "app" THEN ~ComplianceFalsy(read) ELSE TRUE

\* Compliance tab
ComplianceTab(x, ev, read) ==
    LET brief_id == x.s.campaign_meta.brief_id
        y        == [x EXCEPT !.read = read]
    IN  IF brief_id = "None" \/ brief_id = "" THEN x
        ELSE IF ~ComplianceApprovalShown(read) THEN y
        ELSE LET z == render_approval_section(y, "Compliance", StepNum("Compliance"), ev)
             IN  IF z.ret
                 THEN [z EXCEPT !.s.workflow_state =
                                    [@ EXCEPT !.compliance_approved = TRUE,
                                              !.step = StepNum("Compliance")],
                                !.rerun = TRUE]
                 ELSE z

\* a plausible slip: the Handoff tab forgets its guard
HandoffUnlocked_Always(ws) == TRUE

\* the guard of the Handoff tab
HandoffUnlocked(ws) == ws.compliance_approved

\* Handoff tab
HandoffTab(x, ev) ==
    IF ~HandoffUnlocked(x.s.workflow_state) THEN x
    ELSE LET z == render_approval_section(x, "Handoff", StepNum("Handoff"), ev)
         IN  IF z.ret
             THEN [z EXCEPT !.s.workflow_state =
                                [@ EXCEPT !.handoff_approved = TRUE,
                                          !.step = StepNum("Handoff")],
                            !.rerun = TRUE]
             ELSE z

\* st.rerun() stops the script where it is called
Then(x, y) == IF x.rerun THEN x ELSE y

\* one run of the script, tab after tab
ScriptRun(s, ev, read) ==
    IF ~s.workflow_started THEN IntroSection(Exec(s), ev)
    ELSE CHOOSE x4 \in
            { Then(x3, HandoffTab(x3, ev)) : x3 \in
                { Then(x2, ComplianceTab(x2, ev, read)) : x2 \in
                    { Then(x1, ProductionTab(x1, ev)) : x1 \in
                        { BriefingTab(Exec(s), ev) } } } } : TRUE

\* what an interaction leaves behind: the session, what the handling run's
\* render_approval_section returned, whether the click reached its widget,
\* the last compliance read
Outcome(r1, r3) ==
    [s |-> r3.s, ret |-> r1.ret, handled |-> r1.handled,
     read |-> IF r3.read # "none" THEN r3.read ELSE r1.read,
     handling_read |-> r1.read]

\* the run that handles the interaction, then the runs st.rerun() asks for
\* (at most two: Start, then the picker's first render in the app)
Rerun(r, read) == IF r.rerun THEN ScriptRun(r.s, NoEvent, read) ELSE r

Interaction(s, ev, read1, read2) ==
    CHOOSE o \in
        UNION { { Outcome(r1, r3) : r3 \in
                    { Rerun(r2, read2) : r2 \in { Rerun(r1, read2) } } } : r1 \in
                        { ScriptRun(s, ev, read1) } } : TRUE

-----------------------------------------------------------------------------
(* The wrapper's variables at rest (they move only under SpecTimeout).     *)

MaxCalls == 2

CallIds == 1..MaxCalls

\* what a call hands its caller: a value, or an exception raised
Returned(v) == [kind |-> "value", v |-> v]

Raised(e) == [kind |-> "raise", v |-> e]

NoReturn == [kind |-> "none", v |-> "-"]

TimeoutIdle ==
    /\ t_pc = "idle"
    /\ w_pc = [i \in CallIds |-> "unborn"]
    /\ w_outcome = [i \in CallIds |-> "-"]
    /\ result_holder = [i \in CallIds |-> "unset"]
    /\ error_holder = [i \in CallIds |-> "unset"]
    /\ calls = 0
    /\ read_done_at_join = FALSE
    /\ alive_at_check = FALSE
    /\ join_timed_out = FALSE
    /\ wrapper_ret = NoReturn
    /\ compliance_ret = NoReturn
    /\ cache = "unset"

\* no warehouse read in progress
ReadIdle ==
    /\ r_provider = "-"
    /\ r_op = "-"
    /\ r_pc = "idle"
    /\ r_conn = "none"
    /\ r_cursor = "none"
    /\ r_rows = <<>>
    /\ r_fail = "none"
    /\ r_ret = NoReturn
    /\ r_execs = 0

\* no helper applied yet
FnIdle ==
    /\ f_op = "-"
    /\ f_in = <<>>
    /\ f_out = <<>>

-----------------------------------------------------------------------------
(* The workflow specification.                                             *)

\* session state after lines 65-91 and the first render of the intro, whose
\* selectbox stands at index 0
Init ==
    /\ variant \in Variants
    /\ workflow_started = FALSE
    /\ selected_campaign_key = DefaultCampaign
    /\ brief_selected_campaign = "unset"
    /\ prod_selected_campaign_prev = "None"
    /\ campaign_id = "None"
    /\ campaign_meta = [brief_id |-> DefaultCampaign]
    /\ campaign_brief = IntroBrief(DefaultCampaign)
    /\ workflow_state = InitialWorkflowState
    /\ approval_feedback = EmptyFeedback
    /\ prod_prompt_generated = FALSE
    /\ prod_seed_found = FALSE
    /\ prod_generated = FALSE
    /\ compliance = "none"
    /\ event = [NoEvent EXCEPT !.kind = "init"] @@ [handled |-> FALSE, read |-> "none"]
    /\ success = FALSE
    /\ user_choice = DefaultCampaign
    /\ TimeoutIdle
    /\ ReadIdle
    /\ FnIdle

\* store the outcome of an interaction back into the session
Commit(r, ev) ==
    /\ workflow_started' = r.s.workflow_started
    /\ selected_campaign_key' = r.s.selected_campaign_key
    /\ brief_selected_campaign' = r.s.brief_selected_campaign
    /\ prod_selected_campaign_prev' = r.s.prod_selected_campaign_prev
    /\ campaign_id' = r.s.campaign_id
    /\ campaign_meta' = r.s.campaign_meta
    /\ campaign_brief' = r.s.campaign_brief
    /\ workflow_state' = r.s.workflow_state
    /\ approval_feedback' = r.s.approval_feedback
    /\ prod_prompt_generated' = r.s.prod_prompt_generated
    /\ prod_seed_found' = r.s.prod_seed_found
    /\ prod_generated' = r.s.prod_generated
    /\ compliance' = IF r.read = "none" THEN compliance ELSE r.read
    /\ event' = ev @@ [handled |-> r.handled, read |-> r.handling_read]
    /\ success' = r.ret
    /\ user_choice' = IF ev.kind \in {"intro_select", "picker"} THEN ev.campaign
                      ELSE user_choice
    /\ UNCHANGED <<variant, tvars, rvars, fvars>>

Do(ev) ==
    \E read1 \in ReadOutcomes, read2 \in ReadOutcomes :
        \E r \in {Interaction(Session, ev, read1, read2)} : Commit(r, ev)

\* the user changes the intro selectbox
IntroSelect(k) ==
    /\ ~workflow_started
    /\ Do([NoEvent EXCEPT !.kind = "intro_select", !.campaign = k])

\* the user presses "Start Campaign Creation"
StartCampaign ==
    /\ ~workflow_started
    /\ Do([NoEvent EXCEPT !.kind = "start", !.campaign = selected_campaign_key])

\* the user picks a campaign in the Briefing tab
BriefingPicker(k) ==
    /\ workflow_started
    /\ variant = "app"
    /\ Do([NoEvent EXCEPT !.kind = "picker", !.campaign = k])

GenPrompt ==
    /\ workflow_started
    /\ ~prod_prompt_generated
    /\ Do([NoEvent EXCEPT !.kind = "gen_prompt"])

FindSeed ==
    /\ workflow_started
    /\ prod_prompt_generated /\ ~prod_seed_found
    /\ Do([NoEvent EXCEPT !.kind = "find_seed"])

GenerateCreative ==
    /\ workflow_started
    /\ ~prod_generated /\ prod_prompt_generated /\ prod_seed_found
    /\ Do([NoEvent EXCEPT !.kind = "generate"])

\* a click on "Approve" of a stage arrives, whether or not this run renders it
ApproveClick(stage, fb) ==
    /\ workflow_started
    /\ Do([NoEvent EXCEPT !.kind = "approve", !.stage = stage, !.feedback = fb])

\* a click on "Request Changes" of a stage arrives
RejectClick(stage, fb) ==
    /\ workflow_started
    /\ Do([NoEvent EXCEPT !.kind = "reject", !.stage = stage, !.feedback = fb])

Next ==
    \/ \E k \in Campaigns : IntroSelect(k)
    \/ StartCampaign
    \/ \E k \in Campaigns : BriefingPicker(k)
    \/ GenPrompt
    \/ FindSeed
    \/ GenerateCreative
    \/ \E stage \in Stages, fb \in Feedbacks : ApproveClick(stage, fb)
    \/ \E stage \in Stages, fb \in Feedbacks : RejectClick(stage, fb)

Spec == Init /\ [][Next]_vars


-----------------------------------------------------------------------------
(* _run_with_timeout and get_compliance_from_uc_timeout, thread by thread. *)
(* Call i has its own worker, result_holder and error_holder (they are     *)
(* locals of the call).  A worker that never gets to return models a       *)
(* provider call that hangs.                                               *)

\* what fn can do once it ends: return a record, {} or None, or raise
FnValues == {"record1", "record2", "{}", "None"}

FnErrors == {"error1", "error2"}

\* {"_timeout": True}
TimeoutSentinel == "{_timeout}"

\* {"status": "error", "message": "UC fetch timed out after ..."}
TimeoutResult == "{status:error}"

\* the values the Compliance tab takes for "no record": {} and None
AbsentValues == {"{}", "None"}

\* _run_with_timeout is entered: the worker thread is created and started
Call ==
    /\ t_pc \in {"idle", "done"}
    /\ calls < MaxCalls
    /\ calls' = calls + 1
    /\ w_pc' = [w_pc EXCEPT ![calls + 1] = "running"]
    /\ t_pc' = "join"
    /\ wrapper_ret' = NoReturn
    /\ compliance_ret' = NoReturn
    /\ read_done_at_join' = FALSE
    /\ alive_at_check' = FALSE
    /\ join_timed_out' = FALSE
    /\ UNCHANGED <<w_outcome, result_holder, error_holder, cache, wfvars, rvars, fvars>>

\* _target calls fn, the st.cache_data wrapper of get_compliance_from_uc: a
\* live entry is handed back without running the function, otherwise the
\* function body starts
WorkerCacheLookup(i) ==
    /\ w_pc[i] = "running"
    /\ IF cache # "unset"
       THEN /\ w_pc' = [w_pc EXCEPT ![i] = "returned"]
            /\ w_outcome' = [w_outcome EXCEPT ![i] = cache]
       ELSE /\ w_pc' = [w_pc EXCEPT ![i] = "reading"]
            /\ UNCHANGED w_outcome
    /\ UNCHANGED <<t_pc, result_holder, error_holder, calls, read_done_at_join,
                   alive_at_check, join_timed_out, wrapper_ret, compliance_ret,
                   cache, wfvars, rvars, fvars>>

\* _target: fn(*args, **kwargs) ends, with a value or an exception; a value
\* returned by the function body becomes the cache entry
WorkerFnEnds(i, out) ==
    /\ w_pc[i] = "reading"
    /\ w_pc' = [w_pc EXCEPT ![i] = "returned"]
    /\ w_outcome' = [w_outcome EXCEPT ![i] = out]
    /\ cache' = IF out \in FnValues THEN out ELSE cache
    /\ UNCHANGED <<t_pc, result_holder, error_holder, calls, read_done_at_join,
                   alive_at_check, join_timed_out, wrapper_ret, compliance_ret, wfvars, rvars, fvars>>

\* ttl=300: the cache entry expires
CacheExpire ==
    /\ cache # "unset"
    /\ cache' = "unset"
    /\ UNCHANGED <<t_pc, w_pc, w_outcome, result_holder, error_holder, calls,
                   read_done_at_join, alive_at_check, join_timed_out, wrapper_ret,
                   compliance_ret, wfvars, rvars, fvars>>

\* _target: the outcome is stored in result_holder or error_holder
WorkerStore(i) ==
    /\ w_pc[i] = "returned"
    /\ w_pc' = [w_pc EXCEPT ![i] = "stored"]
    /\ IF w_outcome[i] \in FnErrors
       THEN /\ error_holder' = [error_holder EXCEPT ![i] = w_outcome[i]]
            /\ UNCHANGED result_holder
       ELSE /\ result_holder' = [result_holder EXCEPT ![i] = w_outcome[i]]
            /\ UNCHANGED error_holder
    /\ UNCHANGED <<t_pc, w_outcome, calls, read_done_at_join, alive_at_check,
                   join_timed_out, wrapper_ret, compliance_ret, cache, wfvars, rvars, fvars>>

\* _target returns and the thread ends
WorkerExit(i) ==
    /\ w_pc[i] = "stored"
    /\ w_pc' = [w_pc EXCEPT ![i] = "dead"]
    /\ UNCHANGED <<t_pc, w_outcome, result_holder, error_holder, calls,
                   read_done_at_join, alive_at_check, join_timed_out,
                   wrapper_ret, compliance_ret, cache, wfvars, rvars, fvars>>

\* t.join(timeout) returns because the thread has ended
JoinThreadEnded ==
    /\ t_pc = "join"
    /\ w_pc[calls] = "dead"
    /\ t_pc' = "check"
    /\ join_timed_out' = FALSE
    /\ read_done_at_join' = TRUE
    /\ UNCHANGED <<w_pc, w_outcome, result_holder, error_holder, calls,
                   alive_at_check, wrapper_ret, compliance_ret, cache, wfvars, rvars, fvars>>

\* a plausible slip: t.join() without the timeout
JoinWithoutTimeout == t_pc = "join" /\ FALSE /\ UNCHANGED vars

\* t.join(timeout) returns because timeout seconds have passed
JoinTimeout ==
    /\ t_pc = "join"
    /\ w_pc[calls] # "dead"
    /\ t_pc' = "check"
    /\ join_timed_out' = TRUE
    /\ read_done_at_join' = (w_pc[calls] \in {"returned", "stored"})
    /\ UNCHANGED <<w_pc, w_outcome, result_holder, error_holder, calls,
                   alive_at_check, wrapper_ret, compliance_ret, cache, wfvars, rvars, fvars>>

\* t.is_alive()
IsAlive(i) == w_pc[i] # "dead"

\* a plausible slip: the worker's error is dropped and the empty holder read
AfterJoin_SwallowsError(alive, err, res) ==
    IF alive THEN Returned(TimeoutSentinel)
    ELSE Returned(IF res = "unset" THEN "None" ELSE res)

\* the lines after the join: the liveness check and what is handed back
AfterJoin(alive, err, res) ==
    IF alive THEN Returned(TimeoutSentinel)
    ELSE IF err # "unset" THEN Raised(err)
    ELSE Returned(IF res = "unset" THEN "None" ELSE res)

WrapperReturns ==
    /\ t_pc = "check"
    /\ alive_at_check' = IsAlive(calls)
    /\ wrapper_ret' = AfterJoin(IsAlive(calls), error_holder[calls], result_holder[calls])
    /\ t_pc' = "ret"
    /\ UNCHANGED <<w_pc, w_outcome, result_holder, error_holder, calls,
                   read_done_at_join, join_timed_out, compliance_ret, cache, wfvars, rvars, fvars>>

\* get_compliance_from_uc_timeout: what it makes of _run_with_timeout's result
ComplianceFromWrapper(res) ==
    IF res.kind = "raise" THEN res
    ELSE IF res.v = TimeoutSentinel THEN Returned(TimeoutResult)
    ELSE IF res.v \in AbsentValues THEN Returned("{}")
    ELSE res

ComplianceReturns ==
    /\ t_pc = "ret"
    /\ compliance_ret' = ComplianceFromWrapper(wrapper_ret)
    /\ t_pc' = "done"
    /\ UNCHANGED <<w_pc, w_outcome, result_holder, error_holder, calls,
                   read_done_at_join, alive_at_check, join_timed_out, wrapper_ret, cache, wfvars, rvars, fvars>>

CallerStep == JoinThreadEnded \/ JoinTimeout \/ WrapperReturns \/ ComplianceReturns

NextTimeout ==
    \/ Call
    \/ \E i \in CallIds : WorkerCacheLookup(i)
    \/ \E i \in CallIds, out \in FnValues \cup FnErrors : WorkerFnEnds(i, out)
    \/ CacheExpire
    \/ \E i \in CallIds : WorkerStore(i)
    \/ \E i \in CallIds : WorkerExit(i)
    \/ JoinThreadEnded
    \/ JoinTimeout
    \/ WrapperReturns
    \/ ComplianceReturns

SpecTimeout == Init /\ [][NextTimeout]_vars

\* the caller's thread is scheduled and its timer runs; the worker need not
\* ever finish
SpecTimeoutFair == SpecTimeout /\ WF_vars(CallerStep)


-----------------------------------------------------------------------------
(* Properties of the approval workflow (checked under Spec).               *)

\* the four approval flags of workflow_state
ApprovalFlags ==
    {"briefing_approved", "production_approved", "compliance_approved", "handoff_approved"}

\* the interactions that select a campaign for the workflow and reset it:
\* Start Campaign Creation, and the Briefing tab's campaign picker
IsSelection(e) == e.kind \in {"start", "picker"}

\* C1 -- Handoff gating: every step in which handoff_approved goes from false
\* to true starts in a state where compliance_approved is already true, and
\* so handoff_approved implies compliance_approved in every reachable state.
C1_HandoffGating ==
    /\ [](workflow_state.handoff_approved => workflow_state.compliance_approved)
    /\ [][(~workflow_state.handoff_approved /\ workflow_state'.handoff_approved)
            => workflow_state.compliance_approved]_vars

\* C1 witness: a Handoff approval has been accepted
C1_Witness ==
    /\ event.kind = "approve" /\ event.stage = "Handoff" /\ event.handled
    /\ workflow_state.handoff_approved

\* C2 -- Compliance gating: compliance_approved goes from false to true only
\* in a state where creative generation has produced output (prod_generated).
C2_ComplianceGating ==
    [][(~workflow_state.compliance_approved /\ workflow_state'.compliance_approved)
         => prod_generated]_vars

\* C3 -- Step monotonicity: between two resets (Start Campaign Creation, or a
\* campaign switch) step never decreases, whatever the order of generation,
\* approve and reject interactions.
C3_StepMonotonic ==
    [][IsSelection(event') \/ workflow_state'.step >= workflow_state.step]_vars

\* C4 -- Rejection non-regression: from every state and for every stage,
\* Request Changes leaves step and the four approval flags as they were and
\* returns success = false.
C4_RejectFrame ==
    [][event'.kind = "reject"
         => /\ workflow_state'.step = workflow_state.step
            /\ \A k \in ApprovalFlags : workflow_state'[k] = workflow_state[k]
            /\ success' = FALSE]_vars

\* C4 witness: Request Changes was handled in a state that has an approval
\* and a step to lose
C4_Witness ==
    /\ event.kind = "reject" /\ event.handled
    /\ workflow_state.compliance_approved
    /\ workflow_state.step > 0

\* C5 -- Approve effect: an accepted approve(stage, feedback, next_step) sets
\* the stage's flag, stores the feedback under the stage name (replacing what
\* was there), sets step to next_step, leaves the other stages' flags alone
\* and returns success = true.
C5_ApproveEffect ==
    [][(event'.kind = "approve" /\ event'.handled)
         => /\ workflow_state'[ApprovalKey(event'.stage)] = TRUE
            /\ event'.stage \in DOMAIN approval_feedback'
            /\ approval_feedback'[event'.stage] = event'.feedback
            /\ \A st \in (DOMAIN approval_feedback) \ {event'.stage} :
                  /\ st \in DOMAIN approval_feedback'
                  /\ approval_feedback'[st] = approval_feedback[st]
            /\ workflow_state'.step = StepNum(event'.stage)
            /\ \A k \in ApprovalFlags \ {ApprovalKey(event'.stage)} :
                  workflow_state'[k] = workflow_state[k]
            /\ success' = TRUE]_vars

\* C5 witness: Handoff approved with a comment, over an earlier Compliance entry
C5_Witness ==
    /\ event.kind = "approve" /\ event.stage = "Handoff" /\ event.handled
    /\ workflow_state.handoff_approved
    /\ workflow_state.step = StepNum("Handoff")
    /\ DOMAIN approval_feedback = Stages
    /\ approval_feedback["Handoff"] = "ship it"
    /\ success

\* the prerequisite of a stage's approval, as the data model states it
PrerequisiteMet(stage) ==
    IF stage = "Compliance" THEN prod_generated
    ELSE workflow_state.compliance_approved

\* C6 -- Illegal transition refusal: an approve invoked while the stage's
\* prerequisite is not met changes no flag, no step and no feedback, and
\* reports no success.
C6_IllegalApproveRefused ==
    [][(event'.kind = "approve" /\ ~PrerequisiteMet(event'.stage))
         => /\ workflow_state' = workflow_state
            /\ approval_feedback' = approval_feedback
            /\ success' = FALSE]_vars

\* C7 -- Idempotent campaign reset: selecting the campaign that was selected
\* just before leaves the workflow state and the derived brief as the first
\* selection left them, and that state is the initial one.
C7_IdempotentReset ==
    /\ [](IsSelection(event) => workflow_state = InitialWorkflowState)
    /\ [][(IsSelection(event) /\ IsSelection(event') /\ event'.campaign = event.campaign)
            => /\ workflow_state' = workflow_state
               /\ campaign_brief' = campaign_brief]_vars

\* C8 -- Campaign reference after selection: once the workflow is started the
\* campaign reference (campaign_id and campaign_meta.brief_id) is the campaign
\* the user selected last.
C8_CampaignReference ==
    workflow_started
        => /\ campaign_id = user_choice
           /\ campaign_meta.brief_id = user_choice

-----------------------------------------------------------------------------
(* Properties of the bounded-time read (checked under SpecTimeout and      *)
(* SpecTimeoutFair).                                                       *)

\* what get_compliance_from_uc_timeout owes its caller for a read that ended
\* with value v
RecordOf(v) == Returned(IF v \in AbsentValues THEN "{}" ELSE v)

\* C9 -- Timeout sentinel distinctness: a call whose read is still running
\* when the timeout elapses (the timed join gives up) returns the timeout
\* result, which is no absent/empty record; a call whose read has ended with
\* a value by the time the join returns gets that read's record.
C9_TimeoutDistinct ==
    t_pc = "done"
        => /\ (join_timed_out /\ ~read_done_at_join)
                => /\ compliance_ret = Returned(TimeoutResult)
                   /\ TimeoutResult \notin AbsentValues
           /\ (read_done_at_join /\ w_outcome[calls] \in FnValues)
                => compliance_ret = RecordOf(w_outcome[calls])

Abandoned(i) ==
    /\ w_pc[i] \notin {"unborn", "dead"}
    /\ \/ i < calls
       \/ i = calls /\ t_pc \in {"ret", "done"} /\ wrapper_ret = Returned(TimeoutSentinel)

\* C11 -- Abandoned worker is harmless: a call that returns the timeout
\* sentinel leaves its one worker running, and no later step of an abandoned
\* worker changes what was returned, the workflow state, or state that later
\* calls share (other calls' holders, the cache of the read).
C11_AbandonedWorkerHarmless ==
    /\ [][(t_pc = "check" /\ t_pc' = "ret" /\ wrapper_ret' = Returned(TimeoutSentinel))
            => Abandoned(calls)']_vars
    /\ [][\A i \in CallIds :
            (Abandoned(i) /\ w_pc'[i] # w_pc[i])
                => /\ wrapper_ret' = wrapper_ret
                   /\ compliance_ret' = compliance_ret
                   /\ UNCHANGED wfvars
                   /\ \A j \in CallIds \ {i} :
                         /\ result_holder'[j] = result_holder[j]
                         /\ error_holder'[j] = error_holder[j]
                   /\ cache' = cache]_vars

\* C12 -- In-time completion: when the worker thread has ended before the
\* timed join gives up, _run_with_timeout returns fn's value if fn returned
\* and raises fn's own error if fn raised; it does not return the sentinel.
C12_InTimeCompletion ==
    (t_pc \in {"ret", "done"} /\ ~join_timed_out)
        => /\ w_outcome[calls] \in FnValues
                => wrapper_ret = Returned(w_outcome[calls])
           /\ w_outcome[calls] \in FnErrors
                => wrapper_ret = Raised(w_outcome[calls])
           /\ wrapper_ret # Returned(TimeoutSentinel)

\* C12 witness: a second call whose worker ended in time with an error, after
\* a first call whose worker had stored a record
C12_Witness ==
    /\ t_pc = "ret"
    /\ calls = 2
    /\ ~join_timed_out
    /\ result_holder[1] = "record1"
    /\ w_outcome[2] = "error2"
    /\ wrapper_ret = Raised("error2")

\* C13 -- Timeout is a soft failure for the caller: a Compliance tab whose
\* read came back with the timeout result renders it on a path of its own,
\* neither the 'no compliance record' path nor the 'record loaded' path.
C13_TimeoutSoftFailure ==
    (workflow_started /\ compliance = "timeout")
        => CompliancePath(compliance) \notin {CompliancePath("absent"), CompliancePath("record")}

-----------------------------------------------------------------------------
(* Warehouse reads and the DataSource operations, step by step.  One call  *)
(* is in progress at a time; the transport (connector import, connection,  *)
(* cursor, execute, fetch) may fail at each of its steps.                  *)

\* Python lists and dicts, by what the callers look at
ListV(items) == [tag |-> "list", items |-> items]

DictV(content) == [tag |-> "dict", content |-> content]

\* {"output": {}}
EmptyOutput == [tag |-> "dict", output |-> "{}"]

DataSourceProviders == {"PlaceholderDataSource", "DatabricksDataSource"}

DataSourceOps ==
    {"list_campaigns", "get_compliance", "get_generated_image_b64",
     "get_handoff_output", "get_analysis_output"}

\* the module-level reads of utils.py that open a warehouse connection
UtilsReads == {"get_compliance_from_uc", "get_generated_image_b64_from_uc"}

\* the operations that go to the warehouse
WarehouseReads == {"list_campaigns"} \cup UtilsReads

\* the calls there are: the five operations on each provider class, and the
\* utils reads
ReadCalls ==
    (DataSourceProviders \X DataSourceOps) \cup ({"utils"} \X UtilsReads)

\* what each operation returns when it has nothing
DesignatedEmpty(op) ==
    CASE op = "list_campaigns"                  -> ListV(<<>>)
      [] op = "get_compliance"                  -> NoneV
      [] op = "get_generated_image_b64"         -> NoneV
      [] op = "get_handoff_output"              -> EmptyOutput
      [] op = "get_analysis_output"             -> EmptyOutput
      [] op = "get_compliance_from_uc"          -> DictV("{}")
      [] op = "get_generated_image_b64_from_uc" -> NoneV

\* rows list_campaigns can fetch before LIMIT
MaxRows == 2

\* a fetched row, by what the mapping looks at
ListRows == {"b1", "b2", "noid"}

ComplianceRows == {"scored", "unparsable"}

ImageRows == {"b64", "null"}

RowsOf(op) ==
    CASE op = "list_campaigns"                  -> ListRows
      [] op = "get_compliance_from_uc"          -> ComplianceRows
      [] op = "get_generated_image_b64_from_uc" -> ImageRows

\* failures that leave an exception in flight when the finally block runs
InFlight == {"cursor", "execute", "fetch", "rowdict"}

\* an operation is called
ReadCall(provider, op) ==
    /\ r_pc \in {"idle", "done"}
    /\ r_provider' = provider
    /\ r_op' = op
    /\ r_pc' = IF op = "list_campaigns" THEN "import"
               ELSE IF op \in UtilsReads THEN "connect"
               ELSE "body"
    /\ r_conn' = "none"
    /\ r_cursor' = "none"
    /\ r_rows' = <<>>
    /\ r_fail' = "none"
    /\ r_ret' = NoReturn
    /\ r_execs' = 0
    /\ UNCHANGED <<wfvars, tvars, fvars>>

\* the four operations that do not read: constants in PlaceholderDataSource,
\* `raise NotImplementedError` in DatabricksDataSource
ProviderBody ==
    /\ r_pc = "body"
    /\ r_ret' = IF r_provider = "PlaceholderDataSource"
                THEN Returned(DesignatedEmpty(r_op))
                ELSE Raised("NotImplementedError")
    /\ r_pc' = "done"
    /\ UNCHANGED <<r_provider, r_op, r_execs, r_conn, r_cursor, r_rows, r_fail, wfvars, tvars, fvars>>

\* list_campaigns: the lazy imports
ImportStep(ok) ==
    /\ r_pc = "import"
    /\ IF ok
       THEN /\ r_pc' = "connect"
            /\ UNCHANGED <<r_fail, r_ret>>
       ELSE /\ r_pc' = "done"
            /\ r_fail' = "import"
            /\ r_ret' = Returned(ListV(<<>>))
    /\ UNCHANGED <<r_provider, r_op, r_execs, r_conn, r_cursor, r_rows, wfvars, tvars, fvars>>

\* conn = get_databricks_connection(); `if not conn: return <empty>`
ConnectStep(got) ==
    /\ r_pc = "connect"
    /\ IF got
       THEN /\ r_conn' = "open"
            /\ r_pc' = "cursor"
            /\ UNCHANGED <<r_fail, r_ret>>
       ELSE /\ r_pc' = "done"
            /\ r_fail' = "connect"
            /\ r_ret' = Returned(DesignatedEmpty(r_op))
            /\ UNCHANGED r_conn
    /\ UNCHANGED <<r_provider, r_op, r_execs, r_cursor, r_rows, wfvars, tvars, fvars>>

\* cursor = conn.cursor()
CursorStep(ok) ==
    /\ r_pc = "cursor"
    /\ IF ok
       THEN /\ r_cursor' = "open"
            /\ r_pc' = "execute"
            /\ UNCHANGED r_fail
       ELSE /\ r_fail' = "cursor"
            /\ r_pc' = "finally"
            /\ UNCHANGED r_cursor
    /\ UNCHANGED <<r_provider, r_op, r_execs, r_conn, r_rows, r_ret, wfvars, tvars, fvars>>

\* cursor.execute(...)
ExecuteStep(ok) ==
    /\ r_pc = "execute"
    /\ IF ok
       THEN /\ r_pc' = "fetch"
            /\ UNCHANGED r_fail
       ELSE /\ r_fail' = "execute"
            /\ r_pc' = "finally"
    /\ r_execs' = r_execs + 1
    /\ UNCHANGED <<r_provider, r_op, r_conn, r_cursor, r_rows, r_ret, wfvars, tvars, fvars>>

\* cursor.fetchone(): list_campaigns loops until no row comes, the utils
\* reads fetch once
FetchStep(outcome, row) ==
    /\ r_pc = "fetch"
    /\ CASE outcome = "row" ->
              /\ Len(r_rows) < MaxRows
              /\ row \in RowsOf(r_op)
              /\ r_rows' = Append(r_rows, row)
              /\ r_pc' = IF r_op = "list_campaigns" THEN "fetch" ELSE "finally"
              /\ UNCHANGED r_fail
         [] outcome = "end" ->
              /\ r_pc' = IF r_op = "list_campaigns" /\ r_rows = <<>>
                         THEN "fallback" ELSE "finally"
              /\ UNCHANGED <<r_rows, r_fail>>
         [] outcome = "raise" ->
              /\ r_fail' = "fetch"
              /\ r_pc' = "finally"
              /\ UNCHANGED r_rows
         [] outcome = "badrow" ->
              /\ r_op = "list_campaigns"
              /\ r_fail' = "rowdict"
              /\ r_pc' = "finally"
              /\ UNCHANGED r_rows
    /\ UNCHANGED <<r_provider, r_op, r_execs, r_conn, r_cursor, r_ret, wfvars, tvars, fvars>>

FetchOutcomes == {"row", "end", "raise", "badrow"}

\* what fetchall can hand back: up to MaxRows rows
RowBatches == UNION {[1..n -> ListRows] : n \in 0..MaxRows}

\* list_campaigns: the fallback after an empty fetchone loop, which executes
\* the query again and fetches with fetchall; its own exceptions are
\* swallowed
FallbackStep(raised, batch) ==
    /\ r_pc = "fallback"
    /\ IF raised
       THEN /\ r_fail' = "fallback"
            /\ UNCHANGED r_rows
       ELSE /\ r_rows' = batch
            /\ UNCHANGED r_fail
    /\ r_pc' = "finally"
    /\ r_execs' = r_execs + 1
    /\ UNCHANGED <<r_provider, r_op, r_conn, r_cursor, r_ret, wfvars, tvars, fvars>>

\* a plausible slip: the connection is closed on the success path only
ConnAfterFinally_SuccessOnly(c, failed) ==
    IF c = "open" /\ ~failed THEN "closed" ELSE c

\* finally: conn.close()
ConnAfterFinally(c, failed) ==
    IF c = "open" THEN "closed" ELSE c

\* a plausible slip: the transport's exception is let through
OnReadError_Propagates(op) == Raised("transport")

\* `except Exception: return <empty>`
OnReadError(op) == Returned(DesignatedEmpty(op))

\* the finally block, then the except clause if an exception is in flight
FinallyStep ==
    /\ r_pc = "finally"
    /\ r_cursor' = IF r_cursor = "open" THEN "closed" ELSE r_cursor
    /\ r_conn' = ConnAfterFinally(r_conn, r_fail \in InFlight)
    /\ IF r_fail \in InFlight
       THEN /\ r_ret' = OnReadError(r_op)
            /\ r_pc' = "done"
       ELSE /\ r_pc' = "map"
            /\ UNCHANGED r_ret
    /\ UNCHANGED <<r_provider, r_op, r_execs, r_rows, r_fail, wfvars, tvars, fvars>>

\* list_campaigns lines 160-211: rows without an identifier are skipped
MappedCampaigns(rows) == SelectSeq(rows, LAMBDA r : r # "noid")

\* from the fetched rows to the value returned
MapStep ==
    /\ r_pc = "map"
    /\ CASE r_op = "list_campaigns" ->
              /\ r_ret' = Returned(ListV(MappedCampaigns(r_rows)))
              /\ UNCHANGED r_fail
         [] r_op = "get_compliance_from_uc" ->
              IF r_rows = <<>>
              THEN /\ r_ret' = Returned(DictV("{}"))
                   /\ UNCHANGED r_fail
              ELSE IF r_rows[1] = "unparsable"
              THEN /\ r_ret' = OnReadError(r_op)
                   /\ r_fail' = "convert"
              ELSE /\ r_ret' = Returned(DictV("record"))
                   /\ UNCHANGED r_fail
         [] r_op = "get_generated_image_b64_from_uc" ->
              /\ r_ret' = IF r_rows # <<>> /\ r_rows[1] = "b64"
                          THEN Returned(StrV("b64")) ELSE Returned(NoneV)
              /\ UNCHANGED r_fail
    /\ r_pc' = "done"
    /\ UNCHANGED <<r_provider, r_op, r_execs, r_conn, r_cursor, r_rows, wfvars, tvars, fvars>>

NextRead ==
    \/ \E c \in ReadCalls : ReadCall(c[1], c[2])
    \/ ProviderBody
    \/ \E ok \in BOOLEAN : ImportStep(ok)
    \/ \E got \in BOOLEAN : ConnectStep(got)
    \/ \E ok \in BOOLEAN : CursorStep(ok)
    \/ \E ok \in BOOLEAN : ExecuteStep(ok)
    \/ \E outcome \in FetchOutcomes, row \in ListRows \cup ComplianceRows \cup ImageRows :
          FetchStep(outcome, row)
    \/ \E raised \in BOOLEAN, batch \in RowBatches : FallbackStep(raised, batch)
    \/ FinallyStep
    \/ MapStep

SpecRead == Init /\ [][NextRead]_vars

\* C14 -- Provider error containment: each of the five DataSource operations
\* of each provider hands its caller a value, never an exception, and the
\* designated empty value when the transport failed.
C14_ProviderErrorContainment ==
    (r_pc = "done" /\ r_provider \in DataSourceProviders /\ r_op \in DataSourceOps)
        => /\ r_ret.kind = "value"
           /\ r_fail # "none" => r_ret = Returned(DesignatedEmpty(r_op))

C16_ConnectionReleased ==
    (r_pc = "done" /\ r_op \in WarehouseReads) => r_conn # "open"

\* C16 witness: a read whose execute raised returned with its connection
\* closed
C16_Witness ==
    /\ r_pc = "done"
    /\ r_op = "get_compliance_from_uc"
    /\ r_fail = "execute"
    /\ r_conn = "closed"

-----------------------------------------------------------------------------
(* Pure helpers.  Text is a sequence of one-character strings, so that     *)
(* strip, split and JSON decoding are computed character by character.     *)

\* a str value given by its characters
TextV(cs) == [tag |-> "text", cs |-> cs]

\* first position at or after i that holds no blank (Len(cs) + 1 if none)
RECURSIVE SkipWs(_, _)
SkipWs(cs, i) ==
    IF i > Len(cs) THEN Len(cs) + 1
    ELSE IF cs[i] = " " THEN SkipWs(cs, i + 1)
    ELSE i

\* last position at or before i that holds no blank (0 if none)
RECURSIVE SkipWsBack(_, _)
SkipWsBack(cs, i) ==
    IF i < 1 THEN 0
    ELSE IF cs[i] = " " THEN SkipWsBack(cs, i - 1)
    ELSE i

\* str.strip()
Strip(cs) == SubSeq(cs, SkipWs(cs, 1), SkipWsBack(cs, Len(cs)))

\* `c in s`
Contains(cs, c) == \E i \in 1..Len(cs) : cs[i] = c

\* first position of c at or after i (Len(cs) + 1 if none)
RECURSIVE Find(_, _, _)
Find(cs, c, i) ==
    IF i > Len(cs) THEN Len(cs) + 1
    ELSE IF cs[i] = c THEN i
    ELSE Find(cs, c, i + 1)

\* s.split(c)
RECURSIVE Split(_, _)
Split(cs, c) ==
    LET j == Find(cs, c, 1)
    IN  IF j > Len(cs) THEN <<cs>>
        ELSE <<SubSeq(cs, 1, j - 1)>> \o Split(SubSeq(cs, j + 1, Len(cs)), c)

\* [part.strip() for part in parts if part.strip()]
RECURSIVE StripNonEmpty(_)
StripNonEmpty(parts) ==
    IF parts = <<>> THEN <<>>
    ELSE LET p == Strip(Head(parts))
         IN  (IF p = <<>> THEN <<>> ELSE <<p>>) \o StripNonEmpty(Tail(parts))

JsonFail == [ok |-> FALSE, kind |-> "-", items |-> <<>>]

\* a JSON string literal starting at position i
JsonString(cs, i) ==
    IF i > Len(cs) \/ cs[i] # "\"" THEN [ok |-> FALSE, val |-> <<>>, next |-> i]
    ELSE LET j == Find(cs, "\"", i + 1)
         IN  IF j > Len(cs) THEN [ok |-> FALSE, val |-> <<>>, next |-> i]
             ELSE [ok |-> TRUE, val |-> SubSeq(cs, i + 1, j - 1), next |-> j + 1]

\* the closing bracket at position i must end the text
JsonClose(cs, i, kind, acc) ==
    IF SkipWs(cs, i + 1) > Len(cs) THEN [ok |-> TRUE, kind |-> kind, items |-> acc]
    ELSE JsonFail

\* the members of a JSON array of strings, or the values of a JSON object of
\* strings, from position i on
RECURSIVE JsonMembers(_, _, _, _, _)
JsonMembers(cs, i, kind, acc, first) ==
    LET close == IF kind = "list" THEN "]" ELSE "}"
    IN  IF i > Len(cs) THEN JsonFail
        ELSE IF first /\ cs[i] = close THEN JsonClose(cs, i, kind, acc)
        ELSE LET s1  == JsonString(cs, i)
                 col == SkipWs(cs, s1.next)
                 s2  == IF kind = "list" THEN s1
                        ELSE IF s1.ok /\ col <= Len(cs) /\ cs[col] = ":"
                             THEN JsonString(cs, SkipWs(cs, col + 1))
                             ELSE [ok |-> FALSE, val |-> <<>>, next |-> i]
                 nxt == SkipWs(cs, s2.next)
             IN  IF ~s1.ok \/ ~s2.ok \/ nxt > Len(cs) THEN JsonFail
                 ELSE IF cs[nxt] = ","
                      THEN JsonMembers(cs, SkipWs(cs, nxt + 1), kind, Append(acc, s2.val), FALSE)
                 ELSE IF cs[nxt] = close
                      THEN JsonClose(cs, nxt, kind, Append(acc, s2.val))
                 ELSE JsonFail

\* json.loads on text whose strings hold no escapes: arrays and objects of
\* strings decode, anything else raises
JsonLoads(cs) ==
    LET i == SkipWs(cs, 1)
    IN  IF i > Len(cs) THEN JsonFail
        ELSE IF cs[i] = "[" THEN JsonMembers(cs, SkipWs(cs, i + 1), "list", <<>>, TRUE)
        ELSE IF cs[i] = "{" THEN JsonMembers(cs, SkipWs(cs, i + 1), "dict", <<>>, TRUE)
        ELSE JsonFail

\* a plausible slip: JSON decoding is never tried
LooksJson_Never(s_strip) == FALSE

\* s_strip.startswith("[") or s_strip.startswith("{")
LooksJson(s_strip) == s_strip # <<>> /\ s_strip[1] \in {"[", "{"}

\* PlaceholderDataSource.list_campaigns._as_list
_as_list(val) ==
    IF val.tag = "none" THEN <<>>
    ELSE IF val.tag = "list" THEN val.items
    ELSE LET s       == val.cs
             s_strip == Strip(s)
             parsed  == JsonLoads(s_strip)
         IN  IF LooksJson(s_strip) /\ parsed.ok THEN parsed.items
             ELSE IF Contains(s, ",") THEN StripNonEmpty(Split(s, ","))
             ELSE IF s_strip # <<>> THEN <<s_strip>>
             ELSE <<>>

\* list elements: short words, and for lists a word that holds a comma
Tokens == {<<"a">>, <<"b">>, <<"a", "b">>}

ListTokens == Tokens \cup {<<"a", ",", "b">>}

\* longest list normalised
MaxItems == 2

ItemLists(T) == UNION {[1..n -> T] : n \in 0..MaxItems}

\* sep.join(items)
RECURSIVE Join(_, _)
Join(items, sep) ==
    IF items = <<>> THEN <<>>
    ELSE IF Len(items) = 1 THEN items[1]
    ELSE items[1] \o sep \o Join(Tail(items), sep)

RECURSIVE Quoted(_)
Quoted(items) ==
    IF items = <<>> THEN <<>>
    ELSE <<(<<"\"">> \o Head(items) \o <<"\"">>)>> \o Quoted(Tail(items))

\* json.dumps(items, separators=(sep, ":"))
JsonDumps(items, sep) == <<"[">> \o Join(Quoted(items), sep) \o <<"]">>

\* the column values list_campaigns may find, each with the list it stands
\* for: a native list, a JSON list (spaced and compact), a comma-separated
\* string, a single word, None, and texts that only look like JSON
AsListInputs ==
    {[shape |-> "native", items |-> it, val |-> ListV(it)] : it \in ItemLists(ListTokens)}
    \cup {[shape |-> "json", items |-> it, val |-> TextV(JsonDumps(it, <<",", " ">>))] :
            it \in ItemLists(ListTokens)}
    \cup {[shape |-> "json", items |-> it, val |-> TextV(JsonDumps(it, <<",">>))] :
            it \in ItemLists(ListTokens)}
    \cup {[shape |-> "comma", items |-> it, val |-> TextV(Join(it, <<",", " ">>))] :
            it \in ItemLists(Tokens)}
    \cup {[shape |-> "scalar", items |-> <<tk>>, val |-> TextV(tk)] : tk \in Tokens}
    \cup {[shape |-> "none", items |-> <<>>, val |-> NoneV]}
    \cup {[shape |-> "raw", items |-> <<<<"[", "a">>, <<"b">>>>, val |-> TextV(<<"[", "a", ",", " ", "b">>)],
     [shape |-> "raw", items |-> <<<<"a">>>>, val |-> TextV(<<" ", "a", " ">>)],
     [shape |-> "raw", items |-> <<<<"a">>, <<"b">>>>, val |-> TextV(<<"a", ",", ",", "b">>)],
     [shape |-> "raw", items |-> <<<<"a">>>>, val |-> TextV(<<"{", "\"", "k", "\"", ":", " ", "\"", "a", "\"", "}">>)],
     [shape |-> "raw", items |-> <<<<"[", "\"", "a", "\"">>, <<"]">>>>, val |-> TextV(<<"[", "\"", "a", "\"", ",", "]">>)],
     [shape |-> "raw", items |-> <<<<"a">>>>, val |-> TextV(<<" ", "[", "\"", "a", "\"", "]", " ">>)],
     [shape |-> "raw", items |-> <<<<"[">>>>, val |-> TextV(<<"[">>)],
     [shape |-> "raw", items |-> <<>>, val |-> TextV(<<" ", ",", " ">>)]}

\* _as_list is applied to a column value
ApplyAsList(in) ==
    /\ f_op = "-"
    /\ f_op' = "_as_list"
    /\ f_in' = in
    /\ f_out' = _as_list(in.val)
    /\ UNCHANGED <<wfvars, tvars, rvars>>

\* environment variables get_data_source reads
SelectorVars == {"DATABRICKS_HOST", "DATABRICKS_TOKEN"}

OtherVars ==
    {"DATABRICKS_WAREHOUSE_ID", "SQL_WAREHOUSE_ID", "DATABRICKS_HTTP_PATH",
     "DATABRICKS_CATALOG", "DATABRICKS_SCHEMA"}

\* an environment: each variable unset (None), and host and token possibly
\* set to the empty string
Envs ==
    {e \in [SelectorVars \cup OtherVars -> {NoneV, StrV(""), StrV("x")}] :
        \A n \in OtherVars : e[n] # StrV("")}

\* os.environ.get(name, "") or ""
EnvGet(env, name) == Or(IF env[name] = NoneV THEN StrV("") ELSE env[name], StrV(""))

\* a plausible slip: the host alone selects the warehouse provider
get_data_source_HostOnly(env) ==
    IF Truthy(EnvGet(env, "DATABRICKS_HOST"))
    THEN [class |-> "DatabricksDataSource"]
    ELSE [class |-> "PlaceholderDataSource"]

\* config.get_data_source
get_data_source(env) ==
    LET host         == EnvGet(env, "DATABRICKS_HOST")
        token        == EnvGet(env, "DATABRICKS_TOKEN")
        warehouse_id == Or(EnvGet(env, "DATABRICKS_WAREHOUSE_ID"),
                           EnvGet(env, "SQL_WAREHOUSE_ID"))
    IN  IF Truthy(host) /\ Truthy(token)
        THEN [class        |-> "DatabricksDataSource",
              host         |-> host,
              token        |-> token,
              warehouse_id |-> warehouse_id,
              http_path    |-> EnvGet(env, "DATABRICKS_HTTP_PATH"),
              catalog      |-> EnvGet(env, "DATABRICKS_CATALOG"),
              schema       |-> EnvGet(env, "DATABRICKS_SCHEMA")]
        ELSE [class |-> "PlaceholderDataSource"]

ApplyGetDataSource(env) ==
    /\ f_op = "-"
    /\ f_op' = "get_data_source"
    /\ f_in' = env
    /\ f_out' = get_data_source(env)
    /\ UNCHANGED <<wfvars, tvars, rvars>>

\* the five fields of a brief
BriefFields == {"type", "audience", "budget", "timeline", "brief"}

\* a key the input dict does not hold
Absent == [tag |-> "absent"]

TextVals == {Absent, NoneV, StrV(""), StrV("x")}

BudgetVals == {Absent, NoneV, StrV(""), IntV(0), IntV(0 - 5), IntV(100)}

\* the dict that holds the keys given a value
AsDict(b) == [k \in {f \in DOMAIN b : b[f] # Absent} |-> b[k]]

\* input briefs
Briefs ==
    {AsDict(b) : b \in [type : TextVals, audience : TextVals, budget : BudgetVals,
                        timeline : TextVals, brief : TextVals]}

\* the template's first normalize_brief, replaced further down the module
\* by the one in force: the defaults overlaid with every key of the brief
normalize_brief_merge(brief, defaults) ==
    [k \in DOMAIN defaults \cup DOMAIN brief |->
        IF k \in DOMAIN brief THEN brief[k] ELSE defaults[k]]

BriefImpls == {"in_force", "first"}

ApplyNormalizeBrief(impl, brief) ==
    /\ f_op = "-"
    /\ f_op' = "normalize_brief"
    /\ f_in' = [impl |-> impl, brief |-> brief]
    /\ f_out' = IF impl = "first" THEN normalize_brief_merge(brief, DEFAULT_BRIEF)
                ELSE normalize_brief(brief, DEFAULT_BRIEF)
    /\ UNCHANGED <<wfvars, tvars, rvars>>

\* params of the handoff and analysis reads
ParamsSet ==
    {AsDict(b) : b \in [brief_id : {Absent, NoneV, StrV(""), StrV("zzz")}
                                   \cup {StrV(k) : k \in Campaigns}]}

\* the definitions of get_handoff_output / get_analysis_output there are:
\* streamlit-app's, the template's in force, and the template's earlier
\* provider-backed one on each provider class
OutputImpls == {"app", "template", "PlaceholderDataSource", "DatabricksDataSource"}

\* a plausible slip: an unknown brief_id is looked up without a fallback
HandoffLookup_NoFallback(brief_id) ==
    IF brief_id.tag = "str" /\ brief_id.s \in Campaigns THEN brief_id.s ELSE "KeyError"

\* handoff_config.get(campaign_brief_id, handoff_config["brief_001"])
HandoffLookup(brief_id) ==
    IF brief_id.tag = "str" /\ brief_id.s \in Campaigns THEN brief_id.s ELSE "brief_001"

\* {"output": {...}} built from the entry found
OutputOf(entry) ==
    IF entry = "KeyError" THEN Raised("KeyError")
    ELSE Returned([tag |-> "dict", output |-> entry])

\* try: return _provider.<op>(params)  except Exception: return {"output": {}}
ProviderBacked(class) ==
    LET outcome == IF class = "PlaceholderDataSource" THEN Returned(EmptyOutput)
                   ELSE Raised("NotImplementedError")
    IN  IF outcome.kind = "raise" THEN Returned(EmptyOutput) ELSE outcome

\* utils.get_handoff_output
get_handoff_output(impl, params) ==
    CASE impl = "app" ->
           \* params.get("brief_id", "brief_001")
           OutputOf(HandoffLookup(IF "brief_id" \in DOMAIN params
                                  THEN params.brief_id ELSE StrV("brief_001")))
      [] impl = "template" -> Returned([tag |-> "dict", output |-> "PENDING"])
      [] OTHER -> ProviderBacked(impl)

\* utils.get_analysis_output
get_analysis_output(impl, params) ==
    CASE impl = "app" ->
           \* params.get("brief_id") or ""
           OutputOf(HandoffLookup(Or(Get(params, "brief_id"), StrV(""))))
      [] impl = "template" -> Returned([tag |-> "dict", output |-> "empty"])
      [] OTHER -> ProviderBacked(impl)

ApplyHandoffOutput(impl, params) ==
    /\ f_op = "-"
    /\ f_op' = "get_handoff_output"
    /\ f_in' = [impl |-> impl, params |-> params]
    /\ f_out' = get_handoff_output(impl, params)
    /\ UNCHANGED <<wfvars, tvars, rvars>>

ApplyAnalysisOutput(impl, params) ==
    /\ f_op = "-"
    /\ f_op' = "get_analysis_output"
    /\ f_in' = [impl |-> impl, params |-> params]
    /\ f_out' = get_analysis_output(impl, params)
    /\ UNCHANGED <<wfvars, tvars, rvars>>

NextFn ==
    \/ \E in \in AsListInputs : ApplyAsList(in)
    \/ \E env \in Envs : ApplyGetDataSource(env)
    \/ \E impl \in BriefImpls, brief \in Briefs : ApplyNormalizeBrief(impl, brief)
    \/ \E impl \in OutputImpls, params \in ParamsSet : ApplyHandoffOutput(impl, params)
    \/ \E impl \in OutputImpls, params \in ParamsSet : ApplyAnalysisOutput(impl, params)

SpecFn == Init /\ [][NextFn]_vars

\* a value is set and not the empty string
IsSet(v) == v \notin {NoneV, StrV("")}

\* C17 -- Provider selection: get_data_source returns the warehouse provider
\* exactly when host and token are both set and non-empty, the placeholder
\* otherwise, whatever the other configuration values are.
C17_ProviderSelection ==
    f_op = "get_data_source"
        => LET both == IsSet(f_in["DATABRICKS_HOST"]) /\ IsSet(f_in["DATABRICKS_TOKEN"])
           IN  /\ f_out.class = (IF both THEN "DatabricksDataSource"
                                 ELSE "PlaceholderDataSource")
               /\ \A e \in Envs :
                     (\A n \in SelectorVars : e[n] = f_in[n])
                         => get_data_source(e).class = f_out.class

\* C17 witness: the warehouse provider chosen with nothing else configured
C17_Witness ==
    /\ f_op = "get_data_source"
    /\ f_out.class = "DatabricksDataSource"
    /\ \A n \in OtherVars : f_in[n] = NoneV

\* C18 -- List-field normalization: a native list, a JSON-encoded list, a
\* comma-separated string and a single word all normalise to the ordered
\* list of strings they stand for, JSON decoding being tried before comma
\* splitting and comma splitting before the one-element list.
C18_ListNormalization ==
    f_op = "_as_list" => f_out = f_in.items

\* C18 witness: the JSON text of a two-element list whose first element holds
\* a comma
C18_Witness ==
    /\ f_op = "_as_list"
    /\ f_in.shape = "json"
    /\ Len(f_out) = 2
    /\ f_out[1] = <<"a", ",", "b">>

\* C19 -- Brief normalization: each of the five fields of the result is the
\* input's value when the input has one that is not empty, the default
\* otherwise; no field is null and budget is a positive number.
C19_BriefNormalization ==
    f_op = "normalize_brief"
        => /\ \A k \in BriefFields :
                 /\ f_out[k] # NoneV
                 /\ f_out[k] = IF /\ IsSet(Get(f_in.brief, k))
                                  /\ Get(f_in.brief, k) # IntV(0)
                               THEN f_in.brief[k] ELSE DEFAULT_BRIEF[k]
           /\ f_out.budget.tag = "int"
           /\ f_out.budget.n > 0

\* C20 -- Handoff and analysis reads are total: for every params value and
\* every provider outcome the result is a mapping with an 'output' entry,
\* never absent and never an exception.
C20_OutputReadsTotal ==
    f_op \in {"get_handoff_output", "get_analysis_output"}
        => /\ f_out.kind = "value"
           /\ f_out.v.tag = "dict"
           /\ "output" \in DOMAIN f_out.v

\* C20 witness: the handoff read for a brief_id that has no entry
C20_Witness ==
    /\ f_op = "get_handoff_output"
    /\ f_in.impl = "app"
    /\ f_in.params = [brief_id |-> StrV("zzz")]
    /\ f_out = Returned([tag |-> "dict", output |-> "brief_001"])

-----------------------------------------------------------------------------
(* Further properties of the approval workflow (checked under Spec).       *)

\* number of approval flags that are true
ApprovedCount(ws) == Cardinality({k \in ApprovalFlags : ws[k]})

\* C21 -- Step lower bound: in every reachable workflow state step is at
\* least the number of approval flags that are true.
C21_StepLowerBound ==
    workflow_state.step >= ApprovedCount(workflow_state)

\* C21 witness: both approvals given and a creative generated afterwards,
\* which puts step back to the generation step
C21_Witness ==
    /\ ApprovedCount(workflow_state) = 2
    /\ workflow_state.step = GenerationStep
    /\ event.kind = "generate"

\* max(0, min(step, 5))
Clamp(step) == IF step < 0 THEN 0 ELSE IF step > 5 THEN 5 ELSE step

\* pct = int((max(0, min(step, 5)) / 5) * 100)
Pct(step) == (Clamp(step) * 100) \div 5

\* C22 -- Step domain: in every reachable workflow state step is an integer
\* in 0..5, and the progress percentage computed from it is in 0..100.
C22_StepDomain ==
    /\ workflow_state.step \in 0..5
    /\ workflow_started => Pct(workflow_state.step) \in 0..100

\* C22 witness: the last step, shown as full progress
C22_Witness ==
    /\ workflow_started
    /\ workflow_state.step = 5
    /\ Pct(workflow_state.step) = 100

\* C27 -- Only two stages are ever approved: briefing_approved,
\* production_approved and analysis_complete are false and messages is empty
\* in every reachable state, and step is one of 0, 3, 4, 5.
C27_OnlyTwoStages ==
    /\ ~workflow_state.briefing_approved
    /\ ~workflow_state.production_approved
    /\ ~workflow_state.analysis_complete
    /\ workflow_state.messages = << >>
    /\ workflow_state.step \in {0, 3, 4, 5}

\* C27 witness: the whole workflow walked through, generation and both
\* approvals
C27_Witness ==
    /\ prod_generated
    /\ workflow_state.compliance_approved
    /\ workflow_state.handoff_approved
    /\ workflow_state.step = StepNum("Handoff")

\* C23 -- Rejection feedback is recorded: a handled Request Changes stores
\* the feedback text in the approval record under the stage's name, leaving
\* flags and step untouched.
C23_RejectFeedbackRecorded ==
    [][(event'.kind = "reject" /\ event'.handled)
         => /\ event'.stage \in DOMAIN approval_feedback'
            /\ approval_feedback'[event'.stage] = event'.feedback
            /\ workflow_state' = workflow_state]_vars

\* C24 (as stated) -- Approval feedback is never cleared: no workflow
\* operation removes a stage's entry from the approval record.
C24_FeedbackNeverCleared ==
    [][\A st \in DOMAIN approval_feedback : st \in DOMAIN approval_feedback']_vars

\* C24 -- Approval feedback is kept until a reset: every operation other than
\* Start Campaign Creation and the campaign picker leaves each recorded
\* stage with an entry (possibly overwritten by a later approval).
C24_FeedbackKeptUntilReset ==
    [][IsSelection(event')
         \/ \A st \in DOMAIN approval_feedback : st \in DOMAIN approval_feedback']_vars

\* C24 witness: feedback recorded for Compliance is still there after a
\* later generation
C24_Witness ==
    /\ event.kind = "generate"
    /\ "Compliance" \in DOMAIN approval_feedback
    /\ approval_feedback["Compliance"] = "ship it"

\* the flags the two approval stages set
StageFlags == {ApprovalKey(stage) : stage \in Stages}

\* C26 -- Approval flags are sticky: compliance_approved and handoff_approved,
\* once true, stay true through every approve, reject and generation step;
\* only Start Campaign Creation and a campaign switch clear them.
C26_FlagsSticky ==
    [][IsSelection(event')
         \/ \A k \in StageFlags : workflow_state[k] => workflow_state'[k]]_vars

\* C26 witness: a rejection of Handoff handled after Handoff was approved,
\* the approval still standing
C26_Witness ==
    /\ event.kind = "reject" /\ event.stage = "Handoff" /\ event.handled
    /\ workflow_state.handoff_approved

\* C29 -- Compliance approval needs a compliance result: compliance_approved
\* goes from false to true only in an interaction whose compliance read gave
\* a non-empty result, and an approve of Compliance arriving with an empty
\* read is not offered (not handled).
C29_ApprovalNeedsResult ==
    [][/\ (~workflow_state.compliance_approved /\ workflow_state'.compliance_approved)
            => event'.read \notin {"none", "absent"}
       /\ (event'.kind = "approve" /\ event'.stage = "Compliance"
              /\ event'.read = "absent")
            => ~event'.handled]_vars

\* the production sub-state is cleared
ProductionCleared ==
    ~prod_prompt_generated /\ ~prod_seed_found /\ ~prod_generated

\* C30 -- Approvals belong to the current campaign: every step that changes
\* campaign_meta.brief_id ends with step 0, all flags false, no feedback and
\* the production sub-state cleared, and a step that sets an approval flag
\* leaves the campaign reference alone.
C30_ApprovalsOfCurrentCampaign ==
    [][/\ campaign_meta'.brief_id # campaign_meta.brief_id
            => /\ workflow_state' = InitialWorkflowState
               /\ approval_feedback' = EmptyFeedback
               /\ ProductionCleared'
       /\ (\E k \in ApprovalFlags : ~workflow_state[k] /\ workflow_state'[k])
            => campaign_meta' = campaign_meta]_vars

\* C30 witness: the picker has moved the workflow to another campaign
C30_Witness ==
    /\ event.kind = "picker" /\ event.handled
    /\ event.campaign # DefaultCampaign
    /\ campaign_meta.brief_id = event.campaign
    /\ workflow_state.step = 0

-----------------------------------------------------------------------------
(* Further property of the warehouse reads (checked under SpecRead).       *)

\* failures that end the call before it reaches its execute
BeforeExecute == {"import", "connect", "cursor"}

\* C25 -- Single read per operation: a warehouse operation that reaches its
\* query issues exactly one execution in the call; list_campaigns executes
\* its scan once whatever the number of rows returned, zero included.
C25_SingleRead ==
    (r_pc = "done" /\ r_op \in WarehouseReads /\ r_fail \notin BeforeExecute)
        => r_execs = 1

-----------------------------------------------------------------------------
(* Further property of the bounded wait (checked under SpecTimeout).       *)

\* what the worker of the current call has stored, if it has
StoredOutcome ==
    IF error_holder[calls] # "unset" THEN Raised(error_holder[calls])
    ELSE IF result_holder[calls] # "unset" THEN Returned(result_holder[calls])
    ELSE NoReturn

\* C28 -- No lost result at the deadline: at the liveness check,
\* _run_with_timeout hands back the timeout sentinel only if the worker has
\* stored neither a value nor an error; an outcome already stored is what
\* the caller receives, in every interleaving of worker and caller.
C28_NoLostResult ==
    [][(t_pc = "check" /\ t_pc' = "ret")
         => IF StoredOutcome = NoReturn
            THEN TRUE
            ELSE wrapper_ret' = StoredOutcome]_vars

=============================================================================
